---------------------------- MODULE Spec2Model ----------------------------
(***************************************************************************)
(* Conversational assistants of nl_shortest_hackathon: the per-session    *)
(* chat service (src/src/groq_service.py), the Slack adapter              *)
(* (src/src/slack_bot.py), the standalone Slack bot (src/main.py), the    *)
(* console calendar agent (src/agent.py) and configuration start-up       *)
(* (src/src/config_manager.py, src/main.py).                              *)
(*                                                                         *)
(* Text is a tuple of one-character strings, so that str.replace and      *)
(* str.strip are computed rather than assumed.  A session id is a tuple   *)
(* of strings whose concatenation is the Python string.                   *)
(***************************************************************************)
EXTENDS Integers, Sequences, FiniteSets, TLC

VARIABLES
    message_histories,  \* GroqChatService.message_histories: session id -> transcript
    turns,              \* history variable: per session, the successful turns in call order
    last,               \* history variable: the operation handled last, with its observations
    n_ops,              \* number of operations handled so far
    startup,            \* start-up: the environment drawn and the outcome reached
    calls               \* the invoke calls running in parallel threads, one per thread

vars == <<message_histories, turns, last, n_ops, startup, calls>>

----------------------------------------------------------------------------
(* Bounds *)

MaxCalls == 3       \* direct GroqChatService.invoke calls in one run
MaxEvents == 2      \* app_mention events in one run
MaxTurns == 3       \* console lines in one run

----------------------------------------------------------------------------
(* Python values *)

ABSENT == "ABSENT"      \* the key is not in the dict
NULL == "NULL"          \* the key is there and its value is None
NoneText == <<"NONE">>  \* a text value that is None (no str methods)
AbsentText == <<"ABSENT">>

IsStr(t) == t # NoneText /\ t # AbsentText

Whitespace == {" ", "\n"}

\* str.strip(): leading and trailing whitespace removed
RECURSIVE LStrip(_)
LStrip(s) == IF s # <<>> /\ Head(s) \in Whitespace THEN LStrip(Tail(s)) ELSE s

RECURSIVE RStrip(_)
RStrip(s) ==
    IF s # <<>> /\ s[Len(s)] \in Whitespace THEN RStrip(SubSeq(s, 1, Len(s) - 1)) ELSE s

Strip(s) == RStrip(LStrip(s))

\* str.replace(p, ""): every non-overlapping occurrence of p, left to right, in one pass
RECURSIVE Remove(_, _)
Remove(s, p) ==
    IF Len(s) < Len(p) THEN s
    ELSE IF SubSeq(s, 1, Len(p)) = p THEN Remove(SubSeq(s, Len(p) + 1, Len(s)), p)
    ELSE <<Head(s)>> \o Remove(Tail(s), p)

\* f"<@{bot_user_id}>"
MentionToken(b) == <<"<", "@">> \o b \o <<">">>

\* Python truthiness of an optional string field
Falsy(v) == v \in {ABSENT, NULL, ""}

----------------------------------------------------------------------------
(* Messages and the LLM *)

SystemMessage == [role |-> "system", content |-> <<"S">>]
HumanMessage(t) == [role |-> "human", content |-> t]
AIMessage(t) == [role |-> "ai", content |-> t]

Replies == {<<"r", "1">>, <<"r", "2">>}

\* what the external LLM does with one request: a reply, or an exception
LLMOutcomes ==
    {[ok |-> TRUE, content |-> r] : r \in Replies} \cup {[ok |-> FALSE, content |-> <<>>]}


----------------------------------------------------------------------------
(* GroqChatService (src/src/groq_service.py) *)

NoHistories == [s \in {} |-> <<>>]

\* the transcript a session id denotes: ChatMessageHistory.messages, empty when unset
Transcript(h, s) == IF s \in DOMAIN h THEN h[s] ELSE <<>>

\* lambda session_id: self.message_histories.setdefault(session_id, ChatMessageHistory())
GetSessionHistory(h, s) ==
    [x \in DOMAIN h \cup {s} |-> IF x \in DOMAIN h THEN h[x] ELSE <<>>]

\* the template without its history placeholder
PromptWithoutHistory(history, text) == <<SystemMessage, HumanMessage(text)>>

\* ChatPromptTemplate: system, MessagesPlaceholder("history"), ("human", "{input}")
Prompt(history, text) == <<SystemMessage>> \o history \o <<HumanMessage(text)>>

\* a single history object handed to every session
ExitHistoryShared(h, s, text, reply) ==
    [x \in DOMAIN h |-> h[x] \o <<HumanMessage(text), AIMessage(reply)>>]

\* the reply stored ahead of the message it answers
ExitHistorySwapped(h, s, text, reply) ==
    [h EXCEPT ![s] = @ \o <<AIMessage(reply), HumanMessage(text)>>]

\* RunnableWithMessageHistory on the chain's successful end: the input message and
\* the output message are added to the session's history, in that order
ExitHistory(h, s, text, reply) ==
    [h EXCEPT ![s] = @ \o <<HumanMessage(text), AIMessage(reply)>>]

\* the user message stored before the model is called
ChainInvokeEager(h, text, s, out) ==
    LET h1 == GetSessionHistory(h, s)
        h2 == [h1 EXCEPT ![s] = @ \o <<HumanMessage(text)>>]
    IN  [histories |-> IF out.ok THEN [h2 EXCEPT ![s] = @ \o <<AIMessage(out.content)>>]
                       ELSE h2,
         prompt |-> Prompt(h1[s], text),
         ok |-> out.ok,
         content |-> out.content]

\* self._chain_with_history.invoke({"input": user_input}, config={... session_id}):
\* the history is fetched (created when absent), the prompt is composed from it, the
\* model is called, and only a successful end writes the history
ChainInvoke(h, text, s, out) ==
    LET h1 == GetSessionHistory(h, s)
    IN  [histories |-> IF out.ok THEN ExitHistory(h1, s, text, out.content) ELSE h1,
         prompt |-> Prompt(h1[s], text),
         ok |-> out.ok,
         content |-> out.content]

\* GroqChatService.invoke: the chain is called for every user_input; its exception is
\* logged and re-raised, its response's content is returned
GroqInvoke(h, text, s, out) ==
    LET r == ChainInvoke(h, text, s, out)
    IN  [histories |-> r.histories,
         prompt |-> r.prompt,
         llm |-> IF r.ok THEN "ok" ELSE "fail",
         raised |-> ~r.ok,
         content |-> r.content]

----------------------------------------------------------------------------
(* Observations of the operation handled last *)

NoEvent ==
    [text |-> AbsentText, auth |-> ABSENT, thread_ts |-> ABSENT, channel |-> ABSENT,
     ts |-> ABSENT]

NoSession == <<"NO_SESSION">>

NoLast ==
    [op |-> "none", event |-> NoEvent, text |-> <<>>, session |-> NoSession,
     clean |-> FALSE, llm |-> "none", prompt |-> <<>>, content |-> <<>>,
     exc |-> FALSE, raised |-> FALSE, says |-> <<>>, before |-> NoHistories]

NoTurns == [s \in {} |-> <<>>]

TurnsOf(t, s) == IF s \in DOMAIN t THEN t[s] ELSE <<>>

\* the turn (text, reply) recorded for session s when the call succeeded
Record(t, s, text, r) ==
    IF r.llm = "ok"
    THEN [x \in DOMAIN t \cup {s} |->
            IF x = s THEN TurnsOf(t, s) \o <<[text |-> text, reply |-> r.content]>>
            ELSE t[x]]
    ELSE t

NoStartup == [program |-> "service", env |-> <<>>, outcome |-> "none"]

\* no call runs in a thread of its own
NoCalls == <<>>

----------------------------------------------------------------------------
(* Direct use of the chat service: a sequence of invoke calls *)

SvcTexts == {<<>>, <<" ">>, <<"w">>, <<"v", " ">>}
SvcSessions == {<<"a">>, <<"b">>}

Init ==
    /\ message_histories = NoHistories
    /\ turns = NoTurns
    /\ last = NoLast
    /\ n_ops = 0
    /\ calls = NoCalls
    /\ startup = NoStartup

Invoke ==
    /\ n_ops < MaxCalls
    /\ \E text \in SvcTexts, s \in SvcSessions, out \in LLMOutcomes :
         LET r == GroqInvoke(message_histories, text, s, out)
         IN  /\ message_histories' = r.histories
             /\ turns' = Record(turns, s, text, r)
             /\ last' = [NoLast EXCEPT !.op = "invoke", !.text = text, !.session = s,
                                        !.llm = r.llm, !.prompt = r.prompt,
                                        !.content = r.content, !.raised = r.raised,
                                        !.before = message_histories]
    /\ n_ops' = n_ops + 1
    /\ UNCHANGED <<startup, calls>>

Next == Invoke

Spec == Init /\ [][Next]_vars

----------------------------------------------------------------------------
(* SlackBot (src/src/slack_bot.py) *)

CannedEmpty == <<"E">>      \* "It looks like you mentioned me but didn't ask anything! ..."
Apology == <<"A">>          \* "Sorry, I encountered an internal error ..."

\* one call of say(...): what was sent, in which thread, and whether the post went through
Say(says, kind, body, thread_ts, sayok) ==
    Append(says, [kind |-> kind, body |-> body, thread_ts |-> thread_ts,
                  ok |-> sayok[Len(says) + 1]])

\* the outcomes of the say calls of one handling, in call order
SayOutcomes == {<<TRUE, TRUE>>, <<FALSE, TRUE>>, <<FALSE, FALSE>>}

\* event_data.get("text", "")
UserQuery(ev) == IF ev.text = AbsentText THEN <<>> ELSE ev.text

\* authorizations[0].get("user_id") when there is a non-empty authorizations list
BotUserId(ev) == IF ev.auth = ABSENT THEN NULL ELSE ev.auth

\* clean_query: the mention token of the resolved bot id removed, then stripped;
\* without a bot id only stripped
CleanQuery(ev) ==
    IF Falsy(BotUserId(ev)) THEN Strip(UserQuery(ev))
    ELSE Strip(Remove(UserQuery(ev), MentionToken(<<BotUserId(ev)>>)))

\* the channel looked up before the thread
SessionIdChannelFirst(ev) ==
    LET sid == IF ev.channel # ABSENT THEN ev.channel
               ELSE IF ev.thread_ts # ABSENT THEN ev.thread_ts
               ELSE "default_session"
    IN  IF Falsy(sid)
        THEN <<"unknown_session_", IF ev.ts # ABSENT THEN ev.ts ELSE "fallback_ts">>
        ELSE <<sid>>

\* event_data.get("thread_ts", event_data.get("channel", "default_session")), and
\* "unknown_session_" + event_data.get("ts", "fallback_ts") when that is falsy
SessionId(ev) ==
    LET sid == IF ev.thread_ts # ABSENT THEN ev.thread_ts
               ELSE IF ev.channel # ABSENT THEN ev.channel
               ELSE "default_session"
    IN  IF Falsy(sid)
        THEN <<"unknown_session_", IF ev.ts # ABSENT THEN ev.ts ELSE "fallback_ts">>
        ELSE <<sid>>

\* the reply sent into the thread the mention came from
ReplyThreadOfThread(ev) == IF ev.thread_ts # ABSENT THEN ev.thread_ts ELSE ev.ts

\* event_data.get("ts"): None when the event has no ts
ReplyThread(ev) == ev.ts

\* what one handling did: the store after it, the say calls, the query and the dispatch
Handled(h, says, clean, text, session, r) ==
    [histories |-> h, says |-> says, clean |-> clean, text |-> text,
     session |-> session, llm |-> r.llm, prompt |-> r.prompt, content |-> r.content,
     exc |-> FALSE, raised |-> FALSE]

NotInvoked == [llm |-> "none", prompt |-> <<>>, content |-> <<>>]

\* the empty query is not answered but dispatched
TryAppMentionNoGuard(h, ev, out, sayok) ==
    IF ~IsStr(UserQuery(ev))
    THEN [Handled(h, <<>>, FALSE, <<>>, NoSession, NotInvoked) EXCEPT !.exc = TRUE]
    ELSE LET r == GroqInvoke(h, CleanQuery(ev), SessionId(ev), out)
             says == IF r.raised THEN <<>>
                     ELSE Say(<<>>, "reply", r.content, ReplyThread(ev), sayok)
         IN  [Handled(r.histories, says, TRUE, CleanQuery(ev), SessionId(ev), r)
                EXCEPT !.exc = r.raised \/ ~says[1].ok]

\* the stored pair is taken back when the reply cannot be posted
TryAppMentionRollback(h, ev, out, sayok) ==
    IF ~IsStr(UserQuery(ev))
    THEN [Handled(h, <<>>, FALSE, <<>>, NoSession, NotInvoked) EXCEPT !.exc = TRUE]
    ELSE IF CleanQuery(ev) = <<>>
    THEN LET says == Say(<<>>, "canned", CannedEmpty, ABSENT, sayok)
         IN  [Handled(h, says, TRUE, <<>>, NoSession, NotInvoked)
                EXCEPT !.exc = ~says[1].ok]
    ELSE LET r == GroqInvoke(h, CleanQuery(ev), SessionId(ev), out)
             says == IF r.raised THEN <<>>
                     ELSE Say(<<>>, "reply", r.content, ReplyThread(ev), sayok)
         IN  [Handled(IF r.raised \/ says[1].ok THEN r.histories
                      ELSE GetSessionHistory(h, SessionId(ev)),
                      says, TRUE, CleanQuery(ev), SessionId(ev), r)
                EXCEPT !.exc = r.raised \/ ~says[1].ok]

\* the try block of _handle_app_mention; exc tells that it raised
TryAppMention(h, ev, out, sayok) ==
    IF ~IsStr(UserQuery(ev))
    THEN \* None has neither replace nor strip
         [Handled(h, <<>>, FALSE, <<>>, NoSession, NotInvoked) EXCEPT !.exc = TRUE]
    ELSE IF CleanQuery(ev) = <<>>
    THEN LET says == Say(<<>>, "canned", CannedEmpty, ABSENT, sayok)
         IN  [Handled(h, says, TRUE, <<>>, NoSession, NotInvoked)
                EXCEPT !.exc = ~says[1].ok]
    ELSE LET r == GroqInvoke(h, CleanQuery(ev), SessionId(ev), out)
             says == IF r.raised THEN <<>>
                     ELSE Say(<<>>, "reply", r.content, ReplyThread(ev), sayok)
         IN  [Handled(r.histories, says, TRUE, CleanQuery(ev), SessionId(ev), r)
                EXCEPT !.exc = r.raised \/ ~says[1].ok]

\* the apology's own failure escapes the handler
SlackBotHandleLeaky(h, ev, out, sayok) ==
    LET t == TryAppMention(h, ev, out, sayok)
        says == Say(t.says, "apology", Apology, ABSENT, sayok)
    IN  IF t.exc
        THEN [t EXCEPT !.says = says, !.raised = ~says[Len(says)].ok]
        ELSE t

\* SlackBot._handle_app_mention: any exception of the try block is logged and answered
\* with the apology; a failure to post the apology is logged and swallowed
SlackBotHandle(h, ev, out, sayok) ==
    LET t == TryAppMention(h, ev, out, sayok)
    IN  IF t.exc
        THEN [t EXCEPT !.says = Say(t.says, "apology", Apology, ABSENT, sayok)]
        ELSE t

----------------------------------------------------------------------------
(* The standalone Slack bot (src/main.py) *)

\* lambda session_id: ChatMessageHistory(): every call gets a new, empty history, and
\* what the chain's end writes into it is dropped with it
FreshChainInvoke(text, out) ==
    [prompt |-> Prompt(<<>>, text),
     llm |-> IF out.ok THEN "ok" ELSE "fail",
     raised |-> ~out.ok,
     content |-> out.content]

\* body["event"].get("thread_ts", body["event"]["channel"]): the default is looked
\* up first, and is a KeyError without a channel
StandaloneSessionId(ev) == IF ev.thread_ts # ABSENT THEN <<ev.thread_ts>> ELSE <<ev.channel>>

\* f"<@{bot_user_id}>" of body["authorizations"][0]["user_id"]
StandaloneCleanQuery(ev) ==
    Strip(Remove(ev.text,
                 MentionToken(IF ev.auth = NULL THEN <<"N", "o", "n", "e">> ELSE <<ev.auth>>)))

\* the try block of handle_app_mention_events
TryStandalone(h, ev, out, sayok) ==
    IF ev.text = AbsentText \/ ev.auth = ABSENT \/ ev.text = NoneText
    THEN \* KeyError / IndexError of the subscripts, AttributeError of None.replace
         [Handled(h, <<>>, FALSE, <<>>, NoSession, NotInvoked) EXCEPT !.exc = TRUE]
    ELSE IF StandaloneCleanQuery(ev) = <<>>
    THEN LET says == Say(<<>>, "canned", CannedEmpty, ABSENT, sayok)
         IN  [Handled(h, says, TRUE, <<>>, NoSession, NotInvoked)
                EXCEPT !.exc = ~says[1].ok]
    ELSE IF ev.channel = ABSENT
    THEN [Handled(h, <<>>, TRUE, StandaloneCleanQuery(ev), NoSession, NotInvoked)
            EXCEPT !.exc = TRUE]
    ELSE LET r == FreshChainInvoke(StandaloneCleanQuery(ev), out)
             says == IF r.raised THEN <<>>
                     ELSE Say(<<>>, "reply", r.content, ReplyThread(ev), sayok)
         IN  [Handled(h, says, TRUE, StandaloneCleanQuery(ev), StandaloneSessionId(ev), r)
                EXCEPT !.exc = r.raised \/ ~says[1].ok]

\* handle_app_mention_events: the except block posts the apology outside any try
StandaloneHandle(h, ev, out, sayok) ==
    LET t == TryStandalone(h, ev, out, sayok)
        says == Say(t.says, "apology", Apology, ABSENT, sayok)
    IN  IF t.exc
        THEN [t EXCEPT !.says = says, !.raised = ~says[Len(says)].ok]
        ELSE t

----------------------------------------------------------------------------
(* app_mention events *)

EventTexts ==
    { <<>>,
      <<" ", "<", "@", "B", ">", " ">>,
      <<"<", "@", "B", ">", " ", "w">>,
      <<"<", "@", "X", ">", "<", "@", "B", ">", "w", " ", "<", "@", "B", ">">>,
      NoneText }

Events ==
    [text : EventTexts,
     auth : {ABSENT, "B"},
     thread_ts : {ABSENT, NULL, "", "T1"},
     channel : {ABSENT, "C1"},
     ts : {ABSENT, "1"}]

\* the observations of one handled event
Observed(op, ev, before, res) ==
    [op |-> op, event |-> ev, text |-> res.text, session |-> res.session,
     clean |-> res.clean, llm |-> res.llm, prompt |-> res.prompt,
     content |-> res.content, exc |-> res.exc, raised |-> res.raised,
     says |-> res.says, before |-> before]

\* the bot that runs: the packaged SlackBot with its GroqChatService, or src/main.py
InitSlack ==
    /\ message_histories = NoHistories
    /\ turns = NoTurns
    /\ last = NoLast
    /\ n_ops = 0
    /\ calls = NoCalls
    /\ \E p \in {"slackbot", "standalone"} :
          startup = [program |-> p, env |-> <<>>, outcome |-> "started"]

AppMention ==
    /\ startup.program = "slackbot"
    /\ last.op = "none"
    /\ n_ops < MaxEvents
    /\ \E ev \in Events, out \in LLMOutcomes, sayok \in SayOutcomes :
         LET res == SlackBotHandle(message_histories, ev, out, sayok)
         IN  /\ message_histories' = res.histories
             /\ turns' = Record(turns, res.session, res.text, res)
             /\ last' = Observed("mention", ev, message_histories, res)
    /\ n_ops' = n_ops + 1
    /\ UNCHANGED <<startup, calls>>

StandaloneMention ==
    /\ startup.program = "standalone"
    /\ last.op = "none"
    /\ n_ops < MaxEvents
    /\ \E ev \in Events, out \in LLMOutcomes, sayok \in SayOutcomes :
         LET res == StandaloneHandle(message_histories, ev, out, sayok)
         IN  /\ message_histories' = res.histories
             /\ turns' = Record(turns, res.session, res.text, res)
             /\ last' = Observed("mention", ev, message_histories, res)
    /\ n_ops' = n_ops + 1
    /\ UNCHANGED <<startup, calls>>

\* the listener has returned: the socket-mode loop goes on to the next event
Returned ==
    /\ last.op = "mention"
    /\ last' = NoLast
    /\ UNCHANGED <<message_histories, turns, n_ops, startup, calls>>

NextSlack == AppMention \/ StandaloneMention \/ Returned

SpecSlack == InitSlack /\ [][NextSlack]_vars

----------------------------------------------------------------------------
(* Claims about the chat service, checked under Spec *)

\* the messages a sequence of successful turns leaves: user_1, reply_1, ..., user_N, reply_N
RECURSIVE Flatten(_)
Flatten(ts) ==
    IF ts = <<>> THEN <<>>
    ELSE <<HumanMessage(Head(ts).text), AIMessage(Head(ts).reply)>> \o Flatten(Tail(ts))

\* C1: session isolation. An invoke call made with session id a leaves the entry of
\* every other session id b as it was (neither created nor changed), and every
\* message stored under b was recorded by a successful call made with b.
C1_SessionIsolation ==
    /\ last.op = "invoke" =>
         \A b \in SvcSessions \ {last.session} :
            /\ (b \in DOMAIN message_histories) = (b \in DOMAIN last.before)
            /\ Transcript(message_histories, b) = Transcript(last.before, b)
    /\ \A b \in DOMAIN message_histories :
         \A i \in 1..Len(message_histories[b]) :
            \E k \in 1..Len(TurnsOf(turns, b)) :
               message_histories[b][i] \in
                  {HumanMessage(turns[b][k].text), AIMessage(turns[b][k].reply)}

\* a successful call with one session id while another session holds a transcript
C1_Witness ==
    /\ last.op = "invoke"
    /\ last.llm = "ok"
    /\ \E b \in SvcSessions \ {last.session} : Transcript(message_histories, b) # <<>>

\* C2: after N successful invoke calls with session s, the transcript of s is exactly
\* user_1, reply_1, ..., user_N, reply_N, in call order: 2N messages.
C2_TranscriptInCallOrder ==
    \A s \in SvcSessions :
       /\ Transcript(message_histories, s) = Flatten(TurnsOf(turns, s))
       /\ Len(Transcript(message_histories, s)) = 2 * Len(TurnsOf(turns, s))

\* two successful calls of one session with different texts and different replies
C2_Witness ==
    \E s \in SvcSessions :
       /\ Len(TurnsOf(turns, s)) >= 2
       /\ turns[s][1].text # turns[s][2].text
       /\ turns[s][1].reply # turns[s][2].reply

\* every transcript is a sequence of (user message, reply) pairs
PairsOnly(h) ==
    \A s \in DOMAIN h :
       /\ Len(h[s]) % 2 = 0
       /\ \A i \in 1..Len(h[s]) :
            h[s][i].role = (IF i % 2 = 1 THEN "human" ELSE "ai")

\* C3: atomicity under LLM failure. When the LLM call of invoke(text, s) fails, the
\* exception reaches the caller and the transcript of s is what it was before the
\* call; every transcript holds only complete (user message, reply) pairs.
C3_AtomicUnderFailure ==
    /\ (last.op = "invoke" /\ last.llm = "fail") =>
          /\ last.raised
          /\ Transcript(message_histories, last.session)
               = Transcript(last.before, last.session)
    /\ PairsOnly(message_histories)

\* a failed call on a session that already holds a transcript
C3_Witness ==
    /\ last.op = "invoke"
    /\ last.llm = "fail"
    /\ Transcript(last.before, last.session) # <<>>

\* C5: dispatcher-level empty-input guard. invoke called with an empty or
\* whitespace-only user_text does not call the LLM and leaves the store unchanged.
C5_EmptyInputGuard ==
    (last.op = "invoke" /\ Strip(last.text) = <<>>) =>
       /\ last.llm = "none"
       /\ message_histories = last.before

----------------------------------------------------------------------------
(* Claims about the Slack adapters, checked under SpecSlack *)

\* the say calls of the last handling that sent a message of the given kind
SaysOf(kind) == {i \in 1..Len(last.says) : last.says[i].kind = kind}

C6_ErrorContainment ==
    (last.op = "mention" /\ startup.program = "slackbot") =>
       /\ ~last.raised
       /\ last.exc =>
            /\ SaysOf("apology") = {Len(last.says)}
            /\ last.says # <<>>
            /\ last.says[Len(last.says)].body = Apology
            /\ \/ message_histories = last.before
               \/ /\ last.llm = "fail"
                  /\ message_histories = GetSessionHistory(last.before, last.session)
               \/ /\ last.llm = "ok"
                  /\ message_histories =
                       [GetSessionHistory(last.before, last.session)
                          EXCEPT ![last.session] =
                             @ \o <<HumanMessage(last.text), AIMessage(last.content)>>]
       /\ ~last.exc => SaysOf("apology") = {}

\* the reply could not be posted, and neither could the apology
C6_Witness ==
    /\ last.op = "mention"
    /\ startup.program = "slackbot"
    /\ last.exc
    /\ last.llm = "ok"
    /\ Len(last.says) = 2
    /\ ~last.says[1].ok
    /\ ~last.says[2].ok

\* the LLM was called for the last event
Dispatched == last.op = "mention" /\ last.llm # "none"

\* C7 as stated: the session id of a dispatched event is its thread_ts when it
\* carries one, whatever its value, and its channel id otherwise.
C7_SessionIdAsStated ==
    Dispatched =>
       last.session = (IF last.event.thread_ts # ABSENT THEN <<last.event.thread_ts>>
                       ELSE <<last.event.channel>>)

\* C7 amended: the session id of a dispatched event is its thread_ts when that is
\* a non-empty value, and its channel id when it carries no thread_ts and a
\* non-empty channel id. Otherwise SlackBot passes "unknown_session_" + ts (with
\* "fallback_ts" for a missing ts) when the thread_ts is empty or null and
\* "default_session" when the event has neither key; src/main.py passes an empty
\* or null thread_ts on as the id and dispatches no event that lacks a channel.
C7_SessionIdDerivation ==
    Dispatched =>
       LET ev == last.event
           fallback == <<"unknown_session_", IF ev.ts = ABSENT THEN "fallback_ts" ELSE ev.ts>>
       IN  /\ ~Falsy(ev.thread_ts) => last.session = <<ev.thread_ts>>
           /\ (ev.thread_ts = ABSENT /\ ~Falsy(ev.channel)) => last.session = <<ev.channel>>
           /\ startup.program = "slackbot" =>
                /\ ev.thread_ts \in {NULL, ""} => last.session = fallback
                /\ (ev.thread_ts = ABSENT /\ ev.channel = ABSENT) =>
                      last.session = <<"default_session">>
           /\ startup.program = "standalone" =>
                /\ ev.channel # ABSENT
                /\ ev.thread_ts \in {NULL, ""} => last.session = <<ev.thread_ts>>
                /\ ev.thread_ts = ABSENT => last.session = <<ev.channel>>

\* a threaded mention in a channel, dispatched under the thread's id
C7_Witness ==
    /\ Dispatched
    /\ last.event.thread_ts = "T1"
    /\ last.event.channel = "C1"
    /\ last.session = <<"T1">>
    /\ startup.program = "slackbot"

\* the query the claim expects of an event: the bot's token removed when the bot id
\* is resolved, the whole text otherwise, trimmed
ExpectedQuery(ev) ==
    IF ev.auth = "B" THEN Strip(Remove(ev.text, <<"<", "@", "B", ">">>)) ELSE Strip(ev.text)

\* C8: mention stripping. For every event with a text, the handler's query is the
\* text with the bot's own mention token removed and trimmed; when the bot id
\* cannot be resolved, nothing is removed and the whole trimmed text is the query;
\* that query is what a dispatch sends.
C8_MentionStripping ==
    (last.op = "mention" /\ IsStr(last.event.text)) =>
       /\ last.clean
       /\ last.text = ExpectedQuery(last.event)
       /\ Dispatched => last.prompt[Len(last.prompt)] = HumanMessage(ExpectedQuery(last.event))

\* C10: same-session continuity. The prompt of a successful turn holds the user
\* message and the reply of the successful turn before it in the same session.
C10_SameSessionContinuity ==
    (last.op = "mention" /\ last.llm = "ok" /\ Len(TurnsOf(turns, last.session)) >= 2) =>
       LET ts == turns[last.session]
           earlier == ts[Len(ts) - 1]
       IN  \E i \in 1..(Len(last.prompt) - 1) :
              /\ last.prompt[i] = HumanMessage(earlier.text)
              /\ last.prompt[i + 1] = AIMessage(earlier.reply)

----------------------------------------------------------------------------
(* Start-up (src/src/config_manager.py, src/src/groq_service.py, src/main.py) *)

\* config.yaml: not there, not YAML, an empty document, a mapping without "model",
\* a "model" mapping without "name", a "name" with no value, or complete
ConfigFiles == {"missing", "unparsable", "empty", "no_model", "no_name", "name_empty", "ok"}

\* the environment a process starts in: which secrets are set, and the config file
Envs == [groq : BOOLEAN, bot : BOOLEAN, app : BOOLEAN, config : ConfigFiles]

\* what the libraries do where the repository leaves it to them: whether ChatGroq's
\* rejection of a missing key or model name is a ValueError
LibChoices == [value_error : BOOLEAN]

\* ConfigManager.__init__: _load_yaml_config re-raises what open and safe_load raise;
\* _validate_critical_configs raises ValueError for a missing secret or model name
ConfigManagerInit(e) ==
    IF e.config \in {"missing", "unparsable"} THEN "exception"
    ELSE IF ~e.groq \/ ~e.bot \/ ~e.app THEN "exception"
    ELSE IF e.config \in {"empty", "no_model", "no_name"} THEN "exception"
    ELSE "constructed"

\* GroqChatService.__init__(config.groq_api_key, config.model_name)
GroqServiceInit(e) ==
    IF ~e.groq THEN "exception"
    ELSE IF e.config = "name_empty" THEN "exception"
    ELSE "constructed"

\* SlackBot(config, chat_service).start(): both are built before the handler starts
PackageStart(e) ==
    IF ConfigManagerInit(e) # "constructed" THEN "exception"
    ELSE IF GroqServiceInit(e) # "constructed" THEN "exception"
    ELSE "started"

\* initialize_chat under the module's try: load_config returns None for any error
\* and for an empty document, which is the ValueError that exits with 1; a missing
\* key is a KeyError, which is not caught
InitializeChat(e, lib) ==
    IF e.config \in {"missing", "unparsable", "empty"} THEN "exit_nonzero"
    ELSE IF e.config \in {"no_model", "no_name"} THEN "exception"
    ELSE IF ~e.groq \/ e.config = "name_empty"
    THEN (IF lib.value_error THEN "exit_nonzero" ELSE "exception")
    ELSE "constructed"

\* main(): a missing token is printed and main returns
StandaloneMain(e) ==
    IF ~e.app THEN "exit_zero"
    ELSE IF ~e.bot THEN "exit_zero"
    ELSE "started"

\* src/main.py run as a script: App(token=...), which raises without a token, the
\* chat chain, then main()
StandaloneStart(e, lib) ==
    IF ~e.bot THEN "exception"
    ELSE IF InitializeChat(e, lib) # "constructed" THEN InitializeChat(e, lib)
    ELSE StandaloneMain(e)

InitStartup ==
    /\ message_histories = NoHistories
    /\ turns = NoTurns
    /\ last = NoLast
    /\ n_ops = 0
    /\ calls = NoCalls
    /\ \E p \in {"slackbot", "standalone"}, e \in Envs :
          startup = [program |-> p, env |-> e, outcome |-> "none"]

PackageStartup ==
    /\ startup.program = "slackbot"
    /\ startup.outcome = "none"
    /\ startup' = [startup EXCEPT !.outcome = PackageStart(startup.env)]
    /\ UNCHANGED <<message_histories, turns, last, n_ops, calls>>

StandaloneStartup ==
    /\ startup.program = "standalone"
    /\ startup.outcome = "none"
    /\ \E lib \in LibChoices :
          startup' = [startup EXCEPT !.outcome = StandaloneStart(startup.env, lib)]
    /\ UNCHANGED <<message_histories, turns, last, n_ops, calls>>

NextStartup == PackageStartup \/ StandaloneStartup

SpecStartup == InitStartup /\ [][NextStartup]_vars

\* a required value is missing: a secret is not set, or the config file gives no
\* model name
RequiredMissing(e) == ~e.groq \/ ~e.bot \/ ~e.app \/ e.config # "ok"

\* C9: fail-fast start-up. With a required value missing, start-up ends in an
\* exception or a non-zero exit: the socket handler is never started and the
\* process never ends with success status.
C9_FailFastStartup ==
    (startup.outcome # "none" /\ RequiredMissing(startup.env)) =>
       startup.outcome \in {"exception", "exit_nonzero"}

----------------------------------------------------------------------------
(* The console calendar agent (src/agent.py) *)

ConsoleSession == <<"console">>

\* str.lower() on the letters the console lines use
Lower(t) == [i \in 1..Len(t) |-> IF t[i] = "Q" THEN "q" ELSE t[i]]

ConsoleLines ==
    { <<"q", "u", "i", "t">>, <<"Q", "u", "i", "t">>, <<"e", "x", "i", "t">>, <<>>,
      <<"h", "i">>, <<"t", "h", "x">> }

\* process_message on the state main() builds, {"messages": [HumanMessage(user_input)]}:
\* chat_history is messages[:-1], the input is the last message, and the reply is
\* appended to the list of this one invocation
ProcessMessage(messages, out) ==
    [chat_history |-> SubSeq(messages, 1, Len(messages) - 1),
     input |-> messages[Len(messages)].content,
     llm |-> IF out.ok THEN "ok" ELSE "fail",
     content |-> out.content,
     messages |-> IF out.ok THEN Append(messages, AIMessage(out.content)) ELSE messages]

Quit == <<"q", "u", "i", "t">>
Exit == <<"e", "x", "i", "t">>

\* the comparison done without lower()
IsQuitCaseSensitive(line) == line = Quit

\* user_input.lower() == 'quit'
IsQuit(line) == Lower(line) = Quit

InitAgent ==
    /\ message_histories = NoHistories
    /\ turns = NoTurns
    /\ last = NoLast
    /\ n_ops = 0
    /\ calls = NoCalls
    /\ startup = [program |-> "agent", env |-> <<>>, outcome |-> "running"]

\* one pass of the while loop of main(): read a line, leave on quit, else run the
\* workflow on a new state holding only that line and print the last message; an
\* exception of the agent executor is not caught
ConsoleLine ==
    /\ startup.outcome = "running"
    /\ n_ops < MaxTurns
    /\ \E line \in ConsoleLines, out \in LLMOutcomes :
         IF IsQuit(line)
         THEN /\ startup' = [startup EXCEPT !.outcome = "exited"]
              /\ last' = [NoLast EXCEPT !.op = "line", !.text = line]
              /\ UNCHANGED turns
         ELSE LET r == ProcessMessage(<<HumanMessage(line)>>, out)
              IN  /\ startup' = [startup EXCEPT
                                   !.outcome = IF r.llm = "ok" THEN "running" ELSE "crashed"]
                  /\ turns' = Record(turns, ConsoleSession, line, r)
                  /\ last' = [NoLast EXCEPT
                                !.op = "line", !.text = line, !.session = ConsoleSession,
                                !.llm = r.llm, !.content = r.content,
                                !.prompt = r.chat_history \o <<HumanMessage(r.input)>>,
                                !.raised = (r.llm = "fail"),
                                !.says = IF r.llm = "ok"
                                         THEN <<r.messages[Len(r.messages)].content>>
                                         ELSE <<>>]
    /\ n_ops' = n_ops + 1
    /\ UNCHANGED <<message_histories, calls>>

NextAgent == ConsoleLine

SpecAgent == InitAgent /\ [][NextAgent]_vars

\* the console agent's part of C10: the chat_history and input of a successful
\* turn hold the line and the reply of the successful turn before it
AgentContinuity ==
    (last.op = "line" /\ last.llm = "ok" /\ Len(TurnsOf(turns, ConsoleSession)) >= 2) =>
       LET ts == turns[ConsoleSession]
           earlier == ts[Len(ts) - 1]
       IN  \E i \in 1..(Len(last.prompt) - 1) :
              /\ last.prompt[i] = HumanMessage(earlier.text)
              /\ last.prompt[i + 1] = AIMessage(earlier.reply)

\* the agent was run on the last line
LineDispatched == last.op = "line" /\ last.llm # "none"

----------------------------------------------------------------------------
(* Further claims about the Slack adapters, checked under SpecSlack *)

----------------------------------------------------------------------------
(* Further claims about the chat service, checked under Spec *)

\* the successful turns of the last call's session that came before that call
EarlierTurns ==
    LET ts == TurnsOf(turns, last.session)
    IN  IF last.llm = "ok" THEN SubSeq(ts, 1, Len(ts) - 1) ELSE ts

\* C13: prompt composition. The message list of an invoke call is the system
\* instruction, then the session's transcript as it stood before the call, which
\* is the messages of the earlier successful calls in order, then the new user
\* message; the first call of a session sends [system, user message].
C13_PromptComposition ==
    last.op = "invoke" =>
       /\ last.prompt = <<SystemMessage>> \o Transcript(last.before, last.session)
                          \o <<HumanMessage(last.text)>>
       /\ Transcript(last.before, last.session) = Flatten(EarlierTurns)
       /\ Len(last.prompt) = 2 * Len(EarlierTurns) + 2
       /\ SystemMessage = [role |-> "system", content |-> <<"S">>]
       /\ last.session \notin DOMAIN last.before =>
             last.prompt = <<SystemMessage, HumanMessage(last.text)>>

\* the third call of a session, after two successful ones
C13_Witness ==
    /\ last.op = "invoke"
    /\ Len(EarlierTurns) = 2
    /\ Len(last.prompt) = 6
    /\ last.prompt[2].content # last.prompt[4].content

----------------------------------------------------------------------------
(* GroqChatService.invoke called from several threads at once.  The service   *)
(* holds no lock: the history object is fetched with setdefault, its messages *)
(* are copied into the prompt, the model is called, and on success the input  *)
(* message and the output message are appended one add_message at a time.     *)
(* Each thread makes one call; its text carries the thread's number so that   *)
(* the origin of every stored message can be told.                            *)

MaxThreads == 2     \* threads calling invoke at once

Threads == 1 .. MaxThreads

ThreadText(i) == <<"q", ToString(i)>>

\* a message appended to every history of the store
AddMessageToAll(h, s, m) == [x \in DOMAIN h |-> Append(h[x], m)]

\* ChatMessageHistory.add_message: self.messages.append(message)
AddMessage(h, s, m) == [h EXCEPT ![s] = Append(@, m)]

InitConc ==
    /\ message_histories = NoHistories
    /\ turns = NoTurns
    /\ last = NoLast
    /\ n_ops = 0
    /\ startup = NoStartup
    /\ \E ss \in [Threads -> SvcSessions] :
          calls = [i \in Threads |->
                     [pc |-> "start", session |-> ss[i], text |-> ThreadText(i),
                      prompt |-> <<>>, content |-> <<>>]]

\* the history factory: message_histories.setdefault(session_id, ChatMessageHistory())
GetHistory(i) ==
    /\ calls[i].pc = "start"
    /\ message_histories' = GetSessionHistory(message_histories, calls[i].session)
    /\ calls' = [calls EXCEPT ![i].pc = "fetched"]
    /\ UNCHANGED <<turns, last, n_ops, startup>>

\* the stored messages are copied and the prompt is composed from the copy
EnterHistory(i) ==
    /\ calls[i].pc = "fetched"
    /\ calls' = [calls EXCEPT
                   ![i].pc = "prompted",
                   ![i].prompt = Prompt(message_histories[calls[i].session], calls[i].text)]
    /\ UNCHANGED <<message_histories, turns, last, n_ops, startup>>

\* the model answers or raises; a raised call stores nothing
ModelCall(i) ==
    /\ calls[i].pc = "prompted"
    /\ \E out \in LLMOutcomes :
         calls' = [calls EXCEPT ![i].pc = IF out.ok THEN "answered" ELSE "raised",
                                ![i].content = out.content]
    /\ UNCHANGED <<message_histories, turns, last, n_ops, startup>>

\* add_messages, first message: the input
AddUserMessage(i) ==
    /\ calls[i].pc = "answered"
    /\ message_histories' =
          AddMessage(message_histories, calls[i].session, HumanMessage(calls[i].text))
    /\ calls' = [calls EXCEPT ![i].pc = "user_added"]
    /\ UNCHANGED <<turns, last, n_ops, startup>>

\* add_messages, second message: the output; the call then returns its content
AddAIMessage(i) ==
    /\ calls[i].pc = "user_added"
    /\ message_histories' =
          AddMessage(message_histories, calls[i].session, AIMessage(calls[i].content))
    /\ calls' = [calls EXCEPT ![i].pc = "done"]
    /\ turns' = Record(turns, calls[i].session, calls[i].text,
                       [llm |-> "ok", content |-> calls[i].content])
    /\ n_ops' = n_ops + 1
    /\ UNCHANGED <<last, startup>>

NextConc ==
    \E i \in Threads :
       \/ GetHistory(i)
       \/ EnterHistory(i)
       \/ ModelCall(i)
       \/ AddUserMessage(i)
       \/ AddAIMessage(i)

SpecConc == InitConc /\ [][NextConc]_vars

----------------------------------------------------------------------------
(* Claims about concurrent calls, checked under SpecConc *)

\* what call i has stored so far
Stored(i) ==
    IF calls[i].pc = "user_added" THEN <<HumanMessage(calls[i].text)>>
    ELSE IF calls[i].pc = "done"
         THEN <<HumanMessage(calls[i].text), AIMessage(calls[i].content)>>
         ELSE <<>>

\* the other calls for the session of call i
Peers(i) == {j \in Threads \ {i} : calls[j].session = calls[i].session}

Composed(i) == calls[i].pc \in {"prompted", "answered", "user_added", "done", "raised"}

RECURSIVE SumStored(_)
SumStored(T) ==
    IF T = {} THEN 0
    ELSE LET j == CHOOSE x \in T : TRUE IN Len(Stored(j)) + SumStored(T \ {j})

\* C14: unsynchronised concurrent access.  Calls for distinct session ids cannot
\* affect each other under any interleaving: a call that is alone in its session
\* composes [system, its message] and the session's transcript holds exactly what
\* that call has stored.  In every session the transcript holds the messages
\* stored by the calls for that session and no others, each call's user message
\* ahead of its reply, and a prompt holds messages of calls for its own session
\* only.  (Calls for the same session can reach an ordering no serial execution
\* gives: C14_Witness.)
C14_ConcurrentAccess ==
    \A i \in Threads :
       LET s == calls[i].session
           tr == Transcript(message_histories, s)
       IN  /\ Peers(i) = {} =>
                /\ tr = Stored(i)
                /\ Composed(i) =>
                      calls[i].prompt = <<SystemMessage, HumanMessage(calls[i].text)>>
           /\ Len(tr) = SumStored(Peers(i) \cup {i})
           /\ calls[i].pc = "user_added" =>
                 \E a \in 1 .. Len(tr) : tr[a] = HumanMessage(calls[i].text)
           /\ calls[i].pc = "done" =>
                 \E a, b \in 1 .. Len(tr) :
                    /\ a < b
                    /\ tr[a] = HumanMessage(calls[i].text)
                    /\ tr[b] = AIMessage(calls[i].content)
           /\ Composed(i) =>
                 /\ calls[i].prompt[1] = SystemMessage
                 /\ calls[i].prompt[Len(calls[i].prompt)] = HumanMessage(calls[i].text)
                 /\ \A k \in 2 .. Len(calls[i].prompt) - 1 :
                       \E j \in Peers(i) :
                          calls[i].prompt[k] \in
                             {HumanMessage(calls[j].text), AIMessage(calls[j].content)}

\* what running call i and then call j one after the other leaves behind
SerialOrder(i, j) ==
    LET ri == ChainInvoke(NoHistories, calls[i].text, calls[i].session,
                          [ok |-> TRUE, content |-> calls[i].content])
        rj == ChainInvoke(ri.histories, calls[j].text, calls[j].session,
                          [ok |-> TRUE, content |-> calls[j].content])
    IN  /\ message_histories = rj.histories
        /\ calls[i].prompt = ri.prompt
        /\ calls[j].prompt = rj.prompt

\* calls 1 and 2 for one session have both succeeded; the turn of call 1 is stored
\* ahead of the turn of call 2, whose prompt omits it; neither serial order of the
\* two calls gives this state
C14_Witness ==
    /\ calls[1].session = calls[2].session
    /\ calls[1].pc = "done"
    /\ calls[2].pc = "done"
    /\ message_histories[calls[1].session] =
          <<HumanMessage(calls[1].text), AIMessage(calls[1].content),
            HumanMessage(calls[2].text), AIMessage(calls[2].content)>>
    /\ calls[2].prompt = <<SystemMessage, HumanMessage(calls[2].text)>>
    /\ ~SerialOrder(1, 2)
    /\ ~SerialOrder(2, 1)

----------------------------------------------------------------------------
(* GoogleCalendarService._get_calendar_service                                *)
(* (src/src/google_calendar_service.py)                                       *)

\* what token.json holds when the service is constructed
TokenFiles ==
    {"absent", "unreadable", "valid", "expired_refreshable", "expired_no_refresh_token",
     "no_access_token"}

\* the surroundings of one construction: token.json, whether creds.refresh succeeds,
\* whether credentials.json exists, whether the OAuth flow completes, whether
\* token.json can be opened for writing, and what build() does
CalendarEnvs ==
    [token : TokenFiles, refresh_ok : BOOLEAN, credentials_file : BOOLEAN,
     flow_ok : BOOLEAN, writable : BOOLEAN, build : {"ok", "HttpError", "Exception"}]

\* creds after the token file is read: None when it is absent or cannot be loaded
LoadedCreds(e) == IF e.token \in {"absent", "unreadable"} THEN "None" ELSE e.token

\* the save step: open(TOKEN_FILE, "w") truncates the file, then creds.to_json() is
\* written; with creds None to_json raises after the file was opened; every exception
\* of the step is logged and swallowed
SaveCredentials(e, creds) ==
    IF ~e.writable THEN "kept"
    ELSE IF creds = "None" THEN "emptied"
    ELSE "written"

\* the last part: no creds raises ConnectionRefusedError, else the service is built
\* and a failing build returns None
BuildService(e, creds) ==
    IF creds = "None" THEN "ConnectionRefusedError"
    ELSE IF e.build = "ok" THEN "service"
    ELSE "service_none"

GetCalendarService(e) ==
    LET creds == LoadedCreds(e)
    IN  IF creds = "valid"
        THEN [outcome |-> BuildService(e, creds), oauth_flow |-> FALSE,
              refreshed |-> FALSE, token_file |-> "kept"]
        ELSE IF creds = "expired_refreshable"
        THEN LET c == IF e.refresh_ok THEN "valid" ELSE "None"
             IN  [outcome |-> BuildService(e, c), oauth_flow |-> FALSE,
                  refreshed |-> e.refresh_ok, token_file |-> SaveCredentials(e, c)]
        ELSE IF ~e.credentials_file
        THEN [outcome |-> "FileNotFoundError", oauth_flow |-> FALSE,
              refreshed |-> FALSE, token_file |-> "kept"]
        ELSE IF ~e.flow_ok
        THEN [outcome |-> "flow_exception", oauth_flow |-> TRUE,
              refreshed |-> FALSE, token_file |-> "kept"]
        ELSE [outcome |-> BuildService(e, "valid"), oauth_flow |-> TRUE,
              refreshed |-> FALSE, token_file |-> SaveCredentials(e, "valid")]

InitCalendar ==
    /\ message_histories = NoHistories
    /\ turns = NoTurns
    /\ last = NoLast
    /\ n_ops = 0
    /\ calls = NoCalls
    /\ \E e \in CalendarEnvs :
          startup = [program |-> "calendar", env |-> e, outcome |-> "none",
                     oauth_flow |-> FALSE, refreshed |-> FALSE, token_file |-> "kept"]

\* GoogleCalendarService(): __init__ calls _get_calendar_service once
CalendarConstruct ==
    /\ startup.program = "calendar"
    /\ startup.outcome = "none"
    /\ LET r == GetCalendarService(startup.env)
       IN  startup' = [startup EXCEPT !.outcome = r.outcome, !.oauth_flow = r.oauth_flow,
                                      !.refreshed = r.refreshed,
                                      !.token_file = r.token_file]
    /\ UNCHANGED <<message_histories, turns, last, n_ops, calls>>

NextCalendar == CalendarConstruct

SpecCalendar == InitCalendar /\ [][NextCalendar]_vars

\* C15: calendar credential recovery.  When the stored token is expired, has a
\* refresh token, and the refresh attempt fails, construction goes on to the
\* interactive OAuth flow and, when the flow completes and token.json can be
\* written, ends with new credentials persisted, not with an error raised for
\* want of credentials.
C15_CredentialRecovery ==
    (/\ startup.outcome # "none"
     /\ startup.env.token = "expired_refreshable"
     /\ ~startup.env.refresh_ok
     /\ startup.env.credentials_file)
    => /\ startup.oauth_flow
       /\ startup.outcome # "ConnectionRefusedError"
       /\ (startup.env.flow_ok /\ startup.env.writable) => startup.token_file = "written"

----------------------------------------------------------------------------
(* The order of storing and posting in SlackBot._handle_app_mention, checked  *)
(* under SpecSlack                                                            *)

\* the last event was handled by SlackBot, the model answered, and the post of the
\* reply to Slack failed
ReplyUndelivered ==
    /\ startup.program = "slackbot"
    /\ last.op = "mention"
    /\ last.llm = "ok"
    /\ ~last.says[1].ok

\* C16: transcript commit precedes emit.  Once the model has answered, the
\* user/assistant pair is in the session's transcript whatever becomes of the post:
\* the transcript has grown by exactly these two messages and no other session has
\* changed.  When the post of the reply fails, the only further say call is the
\* apology, no reply is delivered, and the prompt of a next call for the session
\* holds the undelivered reply right before the new user message.
C16_CommitPrecedesEmit ==
    (startup.program = "slackbot" /\ last.op = "mention" /\ last.llm = "ok") =>
       /\ Transcript(message_histories, last.session) =
             Transcript(last.before, last.session)
                \o <<HumanMessage(last.text), AIMessage(last.content)>>
       /\ \A s \in DOMAIN message_histories \ {last.session} :
             s \in DOMAIN last.before /\ message_histories[s] = last.before[s]
       /\ last.says[1].kind = "reply"
       /\ ReplyUndelivered =>
             /\ Len(last.says) = 2
             /\ last.says[2].kind = "apology"
             /\ last.says[2].body = Apology
             /\ \A i \in SaysOf("reply") : ~last.says[i].ok
             /\ \A text \in SvcTexts, out \in LLMOutcomes :
                   GroqInvoke(message_histories, text, last.session, out).prompt =
                      <<SystemMessage>> \o Transcript(last.before, last.session)
                         \o <<HumanMessage(last.text), AIMessage(last.content),
                              HumanMessage(text)>>

\* in a session that already holds a turn the post of the reply failed and the
\* apology went through, and the transcript ends with the undelivered reply
C16_Witness ==
    /\ ReplyUndelivered
    /\ last.says[2].ok
    /\ Len(Transcript(last.before, last.session)) = 2
    /\ Len(message_histories[last.session]) = 4
    /\ message_histories[last.session][4] = AIMessage(last.content)

=============================================================================
